---- MODULE Spec2Model ----
(***************************************************************************)
(* DictParser (lib/ceramic-dictionary-parser.js): parses a flat dictionary *)
(* into a nested entity, following an entity schema and a whitelist.       *)
(*                                                                         *)
(* JavaScript values are tagged records, strings are sequences of          *)
(* one-character strings, a flat key is the sequence of the tokens that    *)
(* Array.prototype.join concatenates (names, stringified counters and the  *)
(* delimiter between them).  Every generator function of the parser is an  *)
(* operator of the same name that threads the mutable objects (the object  *)
(* written to, the parents array) through its result; a thrown error is    *)
(* the "thrown" field of the result and unwinds every caller.              *)
(***************************************************************************)
EXTENDS Integers, Sequences, FiniteSets, TLC

\* ------------------------------------------------------------------------
\* JavaScript values
\* ------------------------------------------------------------------------
Undef == [k |-> "undefined"]

Str(cs) == [k |-> "string", s |-> cs]

\* a number: integer part and the digits after the decimal point
Num(n) == [k |-> "number", n |-> n, frac |-> <<>>]

Dec(n, f) == [k |-> "number", n |-> n, frac |-> f]

NaN == [k |-> "NaN"]

Bool(b) == [k |-> "boolean", b |-> b]

\* a keyed object: f maps the property names it holds to their values
Obj(f) == [k |-> "object", f |-> f]

EmptyObj == Obj(<<>>)

\* an Array: e[i + 1] is the element at JavaScript index i, Undef a hole
Arr(e) == [k |-> "array", e |-> e]

\* ToBoolean
Truthy(v) ==
    CASE v.k = "undefined" -> FALSE
      [] v.k = "NaN" -> FALSE
      [] v.k = "string" -> v.s # <<>>
      [] v.k = "number" -> ~(v.n = 0 /\ v.frac = <<>>)
      [] v.k = "boolean" -> v.b
      [] OTHER -> TRUE

\* a || b
Or(a, b) == IF Truthy(a) THEN a ELSE b

\* obj instanceof Array
IsArray(obj) == obj.k = "array"

\* obj[name] of a keyed object
GetProp(obj, name) == IF name \in DOMAIN obj.f THEN obj.f[name] ELSE Undef

\* obj[name] = v
SetProp(obj, name, v) ==
    Obj([x \in DOMAIN obj.f \cup {name} |-> IF x = name THEN v ELSE obj.f[x]])

\* arr[i] of an Array
GetIndex(arr, i) == IF i + 1 \in DOMAIN arr.e THEN arr.e[i + 1] ELSE Undef

\* arr[i] = v: the Array grows to length i + 1, the skipped indices are holes
SetIndex(arr, i, v) ==
    LET len == IF Len(arr.e) > i + 1 THEN Len(arr.e) ELSE i + 1
    IN  Arr([j \in 1..len |-> IF j = i + 1 THEN v ELSE IF j \in DOMAIN arr.e THEN arr.e[j] ELSE Undef])

\* arr.push(v)
Push(arr, v) == Arr(Append(arr.e, v))

\* ------------------------------------------------------------------------
\* Strings
\* ------------------------------------------------------------------------
Digits == <<"0", "1", "2", "3", "4", "5", "6", "7", "8", "9">>

IsDigit(c) == \E i \in DOMAIN Digits : Digits[i] = c

DigitVal(c) == (CHOOSE i \in DOMAIN Digits : Digits[i] = c) - 1

RECURSIVE IntToChars(_)
\* '' + n for a non-negative integer n
IntToChars(n) == IF n < 10 THEN <<Digits[n + 1]>> ELSE IntToChars(n \div 10) \o <<Digits[(n % 10) + 1]>>

\* '' + v for the primitive values a value source returns
ToStringJS(v) ==
    CASE v.k = "string" -> v.s
      [] v.k = "number" -> IntToChars(v.n) \o (IF v.frac = <<>> THEN <<>> ELSE <<".">> \o v.frac)
      [] v.k = "boolean" -> IF v.b THEN <<"t", "r", "u", "e">> ELSE <<"f", "a", "l", "s", "e">>
      [] v.k = "NaN" -> <<"N", "a", "N">>
      [] OTHER -> <<"u", "n", "d", "e", "f", "i", "n", "e", "d">>

StartsWith(cs, p) == Len(cs) >= Len(p) /\ SubSeq(cs, 1, Len(p)) = p

Drop(cs, n) == SubSeq(cs, n + 1, Len(cs))

Amp == <<"&", "a", "m", "p", ";">>

Lt == <<"&", "l", "t", ";">>

Gt == <<"&", "g", "t", ";">>

Quot == <<"&", "#", "3", "4", ";">>

RECURSIVE escape(_)
\* sanitizer.escape: & < > " become entities
escape(cs) ==
    IF cs = <<>> THEN <<>>
    ELSE LET c == Head(cs)
             r == escape(Tail(cs))
         IN  CASE c = "&" -> Amp \o r
               [] c = "<" -> Lt \o r
               [] c = ">" -> Gt \o r
               [] c = "\"" -> Quot \o r
               [] OTHER -> <<c>> \o r

RECURSIVE unescapeEntities(_)
\* sanitizer.unescapeEntities: the entities become their characters
unescapeEntities(cs) ==
    IF cs = <<>> THEN <<>>
    ELSE CASE StartsWith(cs, Amp) -> <<"&">> \o unescapeEntities(Drop(cs, Len(Amp)))
           [] StartsWith(cs, Lt) -> <<"<">> \o unescapeEntities(Drop(cs, Len(Lt)))
           [] StartsWith(cs, Gt) -> <<">">> \o unescapeEntities(Drop(cs, Len(Gt)))
           [] StartsWith(cs, Quot) -> <<"\"">> \o unescapeEntities(Drop(cs, Len(Quot)))
           [] OTHER -> <<Head(cs)>> \o unescapeEntities(Tail(cs))

RECURSIVE sanitize(_)
\* sanitizer.sanitize on text that holds no tag: entities are kept, a loose
\* & < > is escaped
sanitize(cs) ==
    IF cs = <<>> THEN <<>>
    ELSE CASE StartsWith(cs, Amp) -> Amp \o sanitize(Drop(cs, Len(Amp)))
           [] StartsWith(cs, Lt) -> Lt \o sanitize(Drop(cs, Len(Lt)))
           [] StartsWith(cs, Gt) -> Gt \o sanitize(Drop(cs, Len(Gt)))
           [] Head(cs) = "&" -> Amp \o sanitize(Tail(cs))
           [] Head(cs) = "<" -> Lt \o sanitize(Tail(cs))
           [] Head(cs) = ">" -> Gt \o sanitize(Tail(cs))
           [] OTHER -> <<Head(cs)>> \o sanitize(Tail(cs))

RECURSIVE DigitRun(_)
\* the longest prefix of digits
DigitRun(cs) == IF cs # <<>> /\ IsDigit(Head(cs)) THEN <<Head(cs)>> \o DigitRun(Tail(cs)) ELSE <<>>

RECURSIVE DigitsValue(_)
DigitsValue(ds) == IF ds = <<>> THEN 0 ELSE DigitsValue(SubSeq(ds, 1, Len(ds) - 1)) * 10 + DigitVal(ds[Len(ds)])

RECURSIVE TrimZeros(_)
TrimZeros(ds) == IF ds # <<>> /\ ds[Len(ds)] = "0" THEN TrimZeros(SubSeq(ds, 1, Len(ds) - 1)) ELSE ds

\* parseInt(val) of a string of the alphabet (no sign, blank or 0x prefix)
parseInt(cs) ==
    LET ds == DigitRun(cs)
    IN  IF ds = <<>> THEN NaN ELSE Num(DigitsValue(ds))

\* parseFloat(val) of a string of the alphabet (no sign, blank or exponent)
parseFloat(cs) ==
    LET ds == DigitRun(cs)
        rest == Drop(cs, Len(ds))
        fs == IF rest # <<>> /\ Head(rest) = "." THEN DigitRun(Tail(rest)) ELSE <<>>
    IN  IF ds = <<>> /\ fs = <<>> THEN NaN ELSE Dec(DigitsValue(ds), TrimZeros(fs))

\* parents.concat(fieldName).join(delimiter): the tokens of the flat key.
\* A segment is a property name [s |-> name] or an array counter [n |-> i].
IsName(seg) == "s" \in DOMAIN seg

Name(s) == [s |-> s]

Counter(i) == [n |-> i]

SegToken(seg) == IF IsName(seg) THEN <<seg.s>> ELSE IntToChars(seg.n)

RECURSIVE Join(_, _)
Join(segs, delimiter) ==
    IF segs = <<>> THEN <<>>
    ELSE IF Len(segs) = 1 THEN SegToken(segs[1])
    ELSE SegToken(segs[1]) \o <<delimiter>> \o Join(Tail(segs), delimiter)

\* ------------------------------------------------------------------------
\* Schemas: a field definition is [type], [type |-> "array", items] or
\* [type |-> <custom>, entitySchema]; an entity schema is
\* [properties (schema.properties, in declaration order), ctor, mapping,
\* htmlFields]
\* ------------------------------------------------------------------------
isPrimitiveType(type) == type \in {"string", "number", "integer", "boolean", "array"}

isCustomType(type) == ~isPrimitiveType(type)

\* entitySchema && entitySchema.mapping && entitySchema.mapping[fieldName]
InMapping(entitySchema, fieldName) ==
    /\ "mapping" \in DOMAIN entitySchema
    /\ IsName(fieldName)
    /\ fieldName.s \in entitySchema.mapping

\* entitySchema && entitySchema.htmlFields && entitySchema.htmlFields.indexOf(fieldName) !== -1
InHtmlFields(entitySchema, fieldName) ==
    /\ "htmlFields" \in DOMAIN entitySchema
    /\ IsName(fieldName)
    /\ fieldName.s \in entitySchema.htmlFields

\* def.entitySchema && def.entitySchema.ctor
HasCtor(def) == "entitySchema" \in DOMAIN def /\ def.entitySchema.ctor

\* the enclosing schema of a call that has none (getField)
NoSchema == [none |-> TRUE]

\* ------------------------------------------------------------------------
\* Results.  A call returns the object it was given as the call left it,
\* its return value, the parents array as the call left it, the lookups and
\* writes made so far, and the error it threw ("none" when it returned).
\* ------------------------------------------------------------------------
None == "none"

TypeError == "TypeError"

GetterError == "GetterError"

ArrayOfArrays == "Error: Cannot map array of arrays"

NotPrimitive == "Error: is not a primitive type or is an array. Cannot parse."

R(obj, ret, parents, log, thrown) == [obj |-> obj, ret |-> ret, parents |-> parents, log |-> log, thrown |-> thrown]

V(val, thrown) == [val |-> val, thrown |-> thrown]

Pop(parents) == SubSeq(parents, 1, Len(parents) - 1)

\* obj[fieldName] of the object or Array written to
ObjGet(obj, fieldName) == IF IsArray(obj) THEN GetIndex(obj, fieldName.n) ELSE GetProp(obj, fieldName.s)

\* obj[fieldName] = v
ObjSet(obj, fieldName, v) == IF IsArray(obj) THEN SetIndex(obj, fieldName.n, v) ELSE SetProp(obj, fieldName.s, v)

\* e[0] === fieldName, whitelist[0][0] === fieldName: a segment of a split
\* whitelist entry is a string, and never equals a numeric counter
FirstIs(e, fieldName) == Len(e) > 0 /\ IsName(fieldName) /\ e[1] = fieldName.s

\* a.slice(1)
Slice1(a) == IF a = <<>> THEN <<>> ELSE Tail(a)

\* whitelist.indexOf(fieldName): the entries of a split whitelist are Arrays,
\* and an Array is never strictly equal to a string
IndexOf(whitelist, fieldName) == -1

RECURSIVE Split(_, _)
\* val.split(sep): at least one item, also for the empty string
Split(cs, sep) ==
    IF \E i \in DOMAIN cs : cs[i] = sep
    THEN LET i == CHOOSE j \in DOMAIN cs : cs[j] = sep /\ \A h \in 1..(j - 1) : cs[h] # sep
         IN  <<SubSeq(cs, 1, i - 1)>> \o Split(Drop(cs, i), sep)
    ELSE <<cs>>

\* ------------------------------------------------------------------------
\* DictParser
\* ------------------------------------------------------------------------
\* this.getter: the default getter reads this.dict; a value source may fail
getter(self, name) ==
    IF name \in self.failing THEN V(Undef, GetterError)
    ELSE IF name \in DOMAIN self.dict THEN V(self.dict[name], None)
    ELSE V(Undef, None)

parseSimpleType(val, fieldName, def, entitySchema) ==
    IF Truthy(val)
    THEN CASE def.type = "integer" -> V(parseInt(ToStringJS(val)), None)
           [] def.type = "number" -> V(parseFloat(ToStringJS(val)), None)
           [] def.type = "string" ->
                IF InHtmlFields(entitySchema, fieldName)
                THEN V(Str(sanitize(unescapeEntities(ToStringJS(val)))), None)
                ELSE V(Str(escape(ToStringJS(val))), None)
           [] def.type = "boolean" -> V(Bool(val = Bool(TRUE) \/ val = Str(<<"t", "r", "u", "e">>)), None)
           [] OTHER -> V(Undef, NotPrimitive)
    ELSE V(Undef, None)

\* getField(name): def defaults to { type: "string" }
getField(self, name) ==
    LET def == [type |-> "string"]
        value == getter(self, name)
    IN  IF value.thrown # None THEN value
        ELSE IF Truthy(value.val) THEN parseSimpleType(value.val, Name(name), def, NoSchema)
        ELSE V(Undef, None)

Get(parents, fieldName, formField) == [ev |-> "get", path |-> Append(parents, fieldName), key |-> formField]

Write(parents, fieldName, formField, result) == [ev |-> "write", path |-> Append(parents, fieldName), key |-> formField, val |-> result]

Attach(parents) == [ev |-> "attach", path |-> parents]

setSimpleType(self, obj, fieldName, def, entitySchema, whitelist, options, parents, log) ==
    LET formField == Join(Append(parents, fieldName), self.delimiter)
        val == getField(self, formField)
        log1 == Append(log, Get(parents, fieldName, formField))
    IN  IF val.thrown # None THEN R(obj, FALSE, parents, log1, val.thrown)
        ELSE IF Truthy(val.val)
        THEN LET result == parseSimpleType(val.val, fieldName, def, entitySchema)
                 log2 == Append(log1, Write(parents, fieldName, formField, result.val))
             IN  IF result.thrown # None THEN R(obj, FALSE, parents, log1, result.thrown)
                 ELSE IF ~IsArray(obj)
                 \* options.overwrite of an options argument that was not given
                 THEN IF options = Undef THEN R(obj, FALSE, parents, log1, TypeError)
                      ELSE IF options.overwrite
                      THEN R(ObjSet(obj, fieldName, result.val), TRUE, parents, log2, None)
                      ELSE R(ObjSet(obj, fieldName, Or(ObjGet(obj, fieldName), result.val)), TRUE, parents, log2, None)
                 ELSE R(Push(obj, result.val), TRUE, parents, log2, None)
        ELSE R(obj, FALSE, parents, log1, None)

RECURSIVE map_impl(_, _, _, _, _, _, _)
RECURSIVE map_impl_for(_, _, _, _, _, _, _, _, _)
RECURSIVE setField(_, _, _, _, _, _, _, _, _)
RECURSIVE setArray(_, _, _, _, _, _, _, _, _)
RECURSIVE setArray_while(_, _, _, _, _, _, _, _, _, _, _)
RECURSIVE setCustomType(_, _, _, _, _, _, _, _, _)
RECURSIVE setArray_while_SkipsGap(_, _, _, _, _, _, _, _, _, _, _)

\* the for-in loop of map_impl from the i-th property on
map_impl_for(self, target, entitySchema, whitelist, options, parents, log, i, changed) ==
    IF i > Len(entitySchema.properties) THEN R(target, changed, parents, log, None)
    ELSE LET fieldName == entitySchema.properties[i].name
             def == entitySchema.properties[i].def
             fieldWhiteList == SelectSeq(whitelist, LAMBDA e : FirstIs(e, Name(fieldName)))
             r == setField(self, target, Name(fieldName), def, entitySchema, fieldWhiteList, options, parents, log)
         IN  IF r.thrown # None THEN r
             ELSE map_impl_for(self, r.obj, entitySchema, whitelist, options, r.parents, r.log, i + 1, changed \/ r.ret)

map_impl(self, target, entitySchema, whitelist, options, parents, log) ==
    map_impl_for(self, target, entitySchema, whitelist, options, parents, log, 1, FALSE)

\* setField without the whitelist test of its scalar branch
setField_Unguarded(self, obj, fieldName, def, entitySchema, whitelist, options, parents, log) ==
    IF isPrimitiveType(def.type)
    THEN IF def.type # "array"
         THEN setSimpleType(self, obj, fieldName, def, entitySchema, whitelist, options, parents, log)
         ELSE setArray(self, obj, fieldName, def, entitySchema, whitelist, options, parents, log)
    ELSE setCustomType(self, obj, fieldName, def, entitySchema, whitelist, options, parents, log)

\* a scalar that is not whitelisted returns undefined, which callers test as false
setField(self, obj, fieldName, def, entitySchema, whitelist, options, parents, log) ==
    IF isPrimitiveType(def.type)
    THEN IF def.type # "array"
         THEN IF Len(whitelist) > 0 /\ FirstIs(whitelist[1], fieldName)
              THEN setSimpleType(self, obj, fieldName, def, entitySchema, whitelist, options, parents, log)
              ELSE R(obj, FALSE, parents, log, None)
         ELSE setArray(self, obj, fieldName, def, entitySchema, whitelist, options, parents, log)
    ELSE setCustomType(self, obj, fieldName, def, entitySchema, whitelist, options, parents, log)

\* the loop going on to the next index after an index that changed
\* nothing, and stopping only when that one changes nothing either
setArray_while_SkipsGap(self, obj, fieldName, def, whitelist, options, parents, log, counter, newArray, changed) ==
    LET attached == changed \/ Truthy(ObjGet(obj, fieldName))
        r == setField(self, newArray, Counter(counter), def.items, def, whitelist, options, parents, log)
        next == setField(self, newArray, Counter(counter + 1), def.items, def, whitelist, options, r.parents, r.log)
        obj1 == IF attached THEN ObjSet(obj, fieldName, r.obj) ELSE obj
    IN  IF r.thrown # None THEN R(obj1, changed, r.parents, r.log, r.thrown)
        ELSE IF r.ret
        THEN setArray_while_SkipsGap(self, ObjSet(obj, fieldName, r.obj), fieldName, def, whitelist, options, r.parents, r.log, counter + 1, r.obj, TRUE)
        ELSE IF next.thrown = None /\ next.ret
        THEN setArray_while_SkipsGap(self, ObjSet(obj, fieldName, next.obj), fieldName, def, whitelist, options, next.parents, next.log, counter + 2, next.obj, TRUE)
        ELSE R(obj1, changed, Pop(r.parents), r.log, None)

\* the while(true) loop of the indexed mode.  newArray is obj[fieldName]
\* itself once attached is true: the Array the field held before the call,
\* or the new one after the first index that changed it.
setArray_while(self, obj, fieldName, def, whitelist, options, parents, log, counter, newArray, changed) ==
    LET attached == changed \/ Truthy(ObjGet(obj, fieldName))
        r == setField(self, newArray, Counter(counter), def.items, def, whitelist, options, parents, log)
        obj1 == IF attached THEN ObjSet(obj, fieldName, r.obj) ELSE obj
    IN  IF r.thrown # None THEN R(obj1, changed, r.parents, r.log, r.thrown)
        ELSE IF r.ret
        THEN setArray_while(self, ObjSet(obj, fieldName, r.obj), fieldName, def, whitelist, options, r.parents, r.log, counter + 1, r.obj, TRUE)
        ELSE R(obj1, changed, Pop(r.parents), r.log, None)

setArray(self, obj, fieldName, def, entitySchema, whitelist, options, parents, log) ==
    IF InMapping(entitySchema, fieldName)
    THEN IF def.items.type # "array"
         THEN IF IndexOf(whitelist, fieldName) # -1
              THEN LET formField == Join(Append(parents, fieldName), "_")
                       val == getField(self, formField)
                       log1 == Append(log, Get(parents, fieldName, formField))
                   IN  IF val.thrown # None THEN R(obj, FALSE, parents, log1, val.thrown)
                       \* undefined.split
                       ELSE IF val.val = Undef THEN R(obj, FALSE, parents, log1, TypeError)
                       \* this is undefined in the forEach callback
                       ELSE IF Len(Split(val.val.s, ",")) > 0 THEN R(obj, FALSE, parents, log1, TypeError)
                       ELSE R(obj, FALSE, parents, log1, None)
              ELSE R(obj, FALSE, parents, log, None)
         ELSE R(obj, FALSE, parents, log, ArrayOfArrays)
    ELSE LET newArray == Or(ObjGet(obj, fieldName), Arr(<<>>))
         IN  setArray_while(self, obj, fieldName, def, whitelist, options, Append(parents, fieldName), log, 1, newArray, FALSE)

\* setCustomType attaching the new object whether or not a field changed
setCustomType_AttachesUnchanged(self, obj, fieldName, def, entitySchema, whitelist, options, parents, log) ==
    LET whitelist1 == [i \in DOMAIN whitelist |-> Slice1(whitelist[i])]
        parents1 == Append(parents, fieldName)
    IN  IF HasCtor(def)
        THEN LET newObj == EmptyObj
                 r == map_impl(self, newObj, def.entitySchema, whitelist1, options, parents1, log)
             IN  IF r.thrown # None THEN R(obj, FALSE, r.parents, r.log, r.thrown)
                 ELSE IF ~IsArray(obj)
                 THEN R(ObjSet(obj, fieldName, r.obj), r.ret, Pop(r.parents), Append(r.log, Attach(parents1)), None)
                 ELSE R(Push(obj, r.obj), r.ret, Pop(r.parents), Append(r.log, Attach(parents1)), None)
        ELSE R(obj, FALSE, Pop(parents1), log, None)

setCustomType(self, obj, fieldName, def, entitySchema, whitelist, options, parents, log) ==
    LET whitelist1 == [i \in DOMAIN whitelist |-> Slice1(whitelist[i])]
        parents1 == Append(parents, fieldName)
    IN  IF HasCtor(def)
        THEN LET newObj == EmptyObj
                 r == map_impl(self, newObj, def.entitySchema, whitelist1, options, parents1, log)
             IN  IF r.thrown # None THEN R(obj, FALSE, r.parents, r.log, r.thrown)
                 ELSE IF r.ret
                 THEN IF ~IsArray(obj)
                      THEN R(ObjSet(obj, fieldName, r.obj), TRUE, Pop(r.parents), Append(r.log, Attach(parents1)), None)
                      ELSE R(Push(obj, r.obj), TRUE, Pop(r.parents), Append(r.log, Attach(parents1)), None)
                 ELSE R(obj, FALSE, Pop(r.parents), r.log, None)
        ELSE R(obj, FALSE, Pop(parents1), log, None)

\* map: the callback of whitelist.map reads this.options with this undefined
\* (strict mode), which throws as soon as the whitelist has an entry
map(self, target, entitySchema, whitelist, options, parents) ==
    LET options1 == IF options = Undef THEN [overwrite |-> TRUE] ELSE options
        parents1 == IF parents = Undef THEN <<>> ELSE parents
    IN  IF Len(whitelist) > 0 THEN R(target, FALSE, parents1, <<>>, TypeError)
        ELSE map_impl(self, target, entitySchema, <<>>, options1, parents1, <<>>)

\* DictParser(dict, ceramic, options): options.delimiter defaults to "_", the
\* getter to the reader of dict
DictParser(dict, failing, options) ==
    [dict |-> dict, failing |-> failing, delimiter |-> IF "delimiter" \in DOMAIN options THEN options.delimiter ELSE "_"]

\* ------------------------------------------------------------------------
\* Bounds and inputs
\* ------------------------------------------------------------------------
\* the highest array index a dictionary holds keys for
MaxIndex == 4

\* the number of passes run on one target
MaxPasses == 2

Chars(w) ==
    CASE w = "jeswin" -> <<"j", "e", "s", "w", "i", "n">>
      [] w = "33" -> <<"3", "3">>
      [] w = "a&b" -> <<"a", "&", "b">>
      [] w = "&amp;" -> <<"&", "a", "m", "p", ";">>
      [] w = "true" -> <<"t", "r", "u", "e">>
      [] w = "TRUE" -> <<"T", "R", "U", "E">>
      [] w = "yes" -> <<"y", "e", "s">>
      [] w = "3.50" -> <<"3", ".", "5", "0">>
      [] w = "0" -> <<"0">>
      [] w = "7up" -> <<"7", "u", "p">>
      [] w = "1,54,66" -> <<"1", ",", "5", "4", ",", "6", "6">>
      [] w = "old" -> <<"o", "l", "d">>
      [] w = "" -> <<>>

RawStrings == {"jeswin", "33", "a&b", "&amp;", "true", "TRUE", "yes", "3.50", "0", "7up", "1,54,66", ""}

\* what a value source returns for a key it holds
RawValues == {Str(Chars(w)) : w \in RawStrings} \cup {Num(33), Num(0), Bool(TRUE), Bool(FALSE)}

StringDef == [type |-> "string"]

IntegerDef == [type |-> "integer"]

NumberDef == [type |-> "number"]

BooleanDef == [type |-> "boolean"]

Prop(name, def) == [name |-> name, def |-> def]

EntitySchema(properties, ctor, mapping, htmlFields) ==
    [properties |-> properties, ctor |-> ctor, mapping |-> mapping, htmlFields |-> htmlFields]

ArrayOf(items) == [type |-> "array", items |-> items]

Custom(type, entitySchema) == [type |-> type, entitySchema |-> entitySchema]

PersonFields == <<"name", "bio", "age", "score", "vip">>

PersonSchema ==
    EntitySchema(<<Prop("name", StringDef), Prop("bio", StringDef), Prop("age", IntegerDef),
                   Prop("score", NumberDef), Prop("vip", BooleanDef)>>, TRUE, {}, {"bio"})

CustomerSchema(ctor) ==
    EntitySchema(<<Prop("name", StringDef), Prop("age", IntegerDef)>>, ctor, {}, {})

CustomersSchema(ctor) ==
    EntitySchema(<<Prop("customers", ArrayOf(Custom("customer", CustomerSchema(ctor))))>>, TRUE, {}, {})

GeoSchema(ctor) == EntitySchema(<<Prop("lat", NumberDef)>>, ctor, {}, {})

AddressSchema(ctor, geo) ==
    EntitySchema(<<Prop("name", StringDef),
                   Prop("address", Custom("address", EntitySchema(<<Prop("city", StringDef), Prop("zip", IntegerDef),
                                                                    Prop("geo", Custom("geo", GeoSchema(geo)))>>, ctor, {}, {})))>>,
                 TRUE, {}, {})

IdsSchema(mapping) ==
    EntitySchema(<<Prop("customerids", ArrayOf(IntegerDef))>>, TRUE, mapping, {})

GridSchema(mapping, items) ==
    EntitySchema(<<Prop("grid", ArrayOf(ArrayOf(items)))>>, TRUE, mapping, {})

\* the flat key of a path under the default delimiter
Key(segs) == Join(segs, "_")

\* the delimiters a parser is constructed with: the default, or options.delimiter
DelimiterOptions == {<<>>, [delimiter |-> "."]}

DelimiterOf(options) == DictParser(<<>>, {}, options).delimiter

\* a dictionary from a set of <<key, value>> pairs
Dict(pairs) == [key \in {p[1] : p \in pairs} |-> (CHOOSE p \in pairs : p[1] = key)[2]]

\* a whitelist as map leaves it: every entry split into its segments
Paths == [person |-> {<<>>, <<<<"name">>, <<"age">>>>, <<<<"age">>, <<"name">>, <<"bio">>, <<"score">>, <<"vip">>>>, <<<<"vip">>, <<"nick">>>>},
          customers |-> {<<>>, <<<<"customers", "name">>>>, <<<<"customers", "name">>, <<"customers", "age">>>>, <<<<"customers">>, <<"name">>>>},
          address |-> {<<<<"name">>>>, <<<<"address", "city">>>>, <<<<"name">>, <<"address", "zip">>, <<"address", "city">>>>,
                       <<<<"address">>, <<"city">>>>, <<<<"address", "geo", "lat">>>>, <<<<"address", "city">>, <<"address", "geo", "lat">>>>},
          ids |-> {<<>>, <<<<"customerids">>>>},
          grid |-> {<<<<"grid">>>>, <<<<"grid", "name">>>>}]

PersonDicts ==
    {Dict({<<Key(<<Name(PersonFields[i])>>), v>> : i \in DOMAIN PersonFields}) : v \in RawValues}
    \cup {Dict({<<Key(<<Name("name")>>), Str(Chars("jeswin"))>>, <<Key(<<Name("age")>>), Str(Chars("33"))>>})}

\* customers_<i>_name for the indices of names, customers_<i>_age for those of ages
CustomersDict(names, ages) ==
    Dict({<<Key(<<Name("customers"), Counter(i), Name("name")>>), Str(Chars("jeswin"))>> : i \in names}
         \cup {<<Key(<<Name("customers"), Counter(i), Name("age")>>), Str(Chars("33"))>> : i \in ages})

CustomersDicts == {CustomersDict(names, ages) : names \in SUBSET (1..MaxIndex), ages \in {{}, {2}, 1..MaxIndex}}

AddressDicts(delimiter) ==
    {Dict({<<Key(<<Name("name")>>), Str(Chars("jeswin"))>>}
          \cup {<<Join(<<Name("address"), Name(f)>>, delimiter), Str(Chars("33"))>> : f \in fs}
          \cup {<<Join(<<Name("address"), Name("geo"), Name("lat")>>, delimiter), Str(Chars("3.50"))>> : x \in lat})
        : fs \in SUBSET {"city", "zip"}, lat \in SUBSET {1}}

IdsDicts ==
    {Dict({<<Key(<<Name("customerids"), Counter(i)>>), Num(13 + i)>> : i \in 1..n}
          \cup {<<Key(<<Name("customerids")>>), Str(Chars("1,54,66"))>> : x \in csv})
        : n \in 0..MaxIndex, csv \in SUBSET {1}}

GridDicts ==
    {Dict({<<Key(<<Name("grid"), Counter(i), Counter(1)>>), Num(7)>> : i \in 1..n}
          \cup {<<Key(<<Name("grid"), Counter(i), Counter(1), Name("name")>>), Str(Chars("jeswin"))>> : i \in 1..n}
          \cup {<<Key(<<Name("grid")>>), Str(Chars("1,54,66"))>> : x \in {1}})
        : n \in 0..MaxIndex}

OldCustomer == Obj([name |-> Str(Chars("old"))])

\* the entities a caller maps into: a new one, or one that holds values
Targets == [person |-> {EmptyObj, Obj([name |-> Str(Chars("old")), age |-> Num(0), vip |-> Bool(FALSE), bio |-> Str(<<>>), score |-> Dec(1, <<"5">>)])},
            customers |-> {EmptyObj, Obj([customers |-> Arr(<<OldCustomer>>)])},
            address |-> {EmptyObj, Obj([address |-> Obj([city |-> Str(Chars("old")), zip |-> Num(7)])])},
            ids |-> {EmptyObj, Obj([customerids |-> Arr(<<Num(5)>>)])},
            grid |-> {EmptyObj}]

Scenario(kind, schema, dict, options) == [kind |-> kind, schema |-> schema, dict |-> dict, options |-> options]

Scenarios ==
    {Scenario("person", PersonSchema, d, <<>>) : d \in PersonDicts}
    \cup {Scenario("customers", CustomersSchema(c), d, <<>>) : c \in BOOLEAN, d \in CustomersDicts}
    \cup UNION {{Scenario("address", AddressSchema(c, g), d, o) : c \in BOOLEAN, g \in BOOLEAN, d \in AddressDicts(DelimiterOf(o))} : o \in DelimiterOptions}
    \cup {Scenario("ids", IdsSchema(m), d, <<>>) : m \in {{}, {"customerids"}}, d \in IdsDicts}
    \cup {Scenario("grid", GridSchema(m, i), d, <<>>) : m \in {{}, {"grid"}}, i \in {IntegerDef, Custom("customer", CustomerSchema(TRUE))}, d \in GridDicts}

\* the value source fails on at most one key
Failing(dict) == {{}} \cup {{key} : key \in {k \in DOMAIN dict : Len(k) > 1}}

OptionsSet == {Undef, [overwrite |-> TRUE], [overwrite |-> FALSE]}

\* ------------------------------------------------------------------------
\* The state: a parser, the arguments its caller maps with, the entity
\* mapped into, and the passes run so far
\* ------------------------------------------------------------------------
VARIABLES self, target, entitySchema, whitelist, options, hist

vars == <<self, target, entitySchema, whitelist, options, hist>>

Init ==
    \E sc \in Scenarios :
        /\ \E failing \in Failing(sc.dict) : self = DictParser(sc.dict, failing, sc.options)
        /\ target \in Targets[sc.kind]
        /\ entitySchema = sc.schema
        /\ whitelist \in Paths[sc.kind]
        /\ options \in OptionsSet
        /\ hist = <<>>

\* a pass as its caller sees it, with the options it ran under
Pass(entry, opts, r) ==
    [entry |-> entry, options |-> opts, before |-> target, after |-> r.obj,
     ret |-> r.ret, thrown |-> r.thrown, parents |-> r.parents, log |-> r.log]

\* the whitelist as handed to map: every path joined by the delimiter
Joined(paths) == [i \in DOMAIN paths |-> Join([j \in DOMAIN paths[i] |-> Name(paths[i][j])], self.delimiter)]

\* yield parser.map(target, entitySchema, whitelist, options)
Map ==
    /\ Len(hist) < MaxPasses
    /\ LET r == map(self, target, entitySchema, Joined(whitelist), options, Undef)
       IN  /\ target' = r.obj
           /\ hist' = Append(hist, Pass("map", IF options = Undef THEN [overwrite |-> TRUE] ELSE options, r))
    /\ UNCHANGED <<self, entitySchema, whitelist, options>>

\* yield parser.map_impl(target, entitySchema, whitelist, options, []) with
\* the whitelist already split; map_impl gives options no default
MapImpl ==
    /\ Len(hist) < MaxPasses
    /\ LET r == map_impl(self, target, entitySchema, whitelist, options, <<>>, <<>>)
       IN  /\ target' = r.obj
           /\ hist' = Append(hist, Pass("map_impl", options, r))
    /\ UNCHANGED <<self, entitySchema, whitelist, options>>

Next == Map \/ MapImpl

Spec == Init /\ [][Next]_vars

\* ------------------------------------------------------------------------
\* Properties
\* ------------------------------------------------------------------------
Passes == {hist[i] : i \in DOMAIN hist}

Completed(p) == p.thrown = None

\* the pass ran with options.overwrite true, or false
Overwrite(p) == p.options = [overwrite |-> TRUE]

NoOverwrite(p) == p.options = [overwrite |-> FALSE]

Events(p, ev) == {p.log[i] : i \in {j \in DOMAIN p.log : p.log[j].ev = ev}}

Entries == {whitelist[i] : i \in DOMAIN whitelist}

Properties(es) == {es.properties[i] : i \in DOMAIN es.properties}

IsScalar(def) == def.type \in {"string", "number", "integer", "boolean"}

\* the value source holds a (truthy) value for the key
Present(key) == key \in DOMAIN self.dict /\ Truthy(self.dict[key])

\* the property names of a path, its array indices left out
NamesOf(path) == LET names == SelectSeq(path, LAMBDA seg : IsName(seg)) IN [i \in DOMAIN names |-> names[i].s]

IsPrefix(a, b) == Len(a) <= Len(b) /\ SubSeq(b, 1, Len(a)) = a

\* C1: no over-mapping.  Every scalar written during a pass is a named field
\* whose path of names (one name for each nested-object level descended, then
\* the field's own) starts a whitelist entry, so that the entry's first
\* remaining segment at that level is the field name; and a scalar field of
\* the schema that starts no entry keeps the value it had, whatever the
\* value source holds for its key.
NoOverMapping ==
    \A p \in Passes :
        /\ \A w \in Events(p, "write") :
              /\ IsName(w.path[Len(w.path)])
              /\ \E e \in Entries : IsPrefix(NamesOf(w.path), e)
        /\ \A pr \in Properties(entitySchema) :
              (IsScalar(pr.def) /\ ~\E e \in Entries : IsPrefix(<<pr.name>>, e))
                  => GetProp(p.after, pr.name) = GetProp(p.before, pr.name)

\* a pass wrote a whitelisted field and left alone a field that is not
\* whitelisted although the value source holds a value for it
NoOverMappingWitness ==
    \E p \in Passes :
        /\ Completed(p)
        /\ Events(p, "write") # {}
        /\ \E pr \in Properties(entitySchema) :
              /\ IsScalar(pr.def)
              /\ Present(Key(<<Name(pr.name)>>))
              /\ ~\E e \in Entries : IsPrefix(<<pr.name>>, e)
              /\ pr.name \notin DOMAIN p.after.f

\* what a pass stores for a raw value: getField's conversion to a string,
\* then the conversion of the field's type
Stored(raw, fieldName, def, es) ==
    parseSimpleType(parseSimpleType(raw, fieldName, StringDef, NoSchema).val, fieldName, def, es).val

\* the item objects of an indexed array field: the fields in indexed mode
\* whose items are objects that can be constructed
ObjectArrays ==
    {pr \in Properties(entitySchema) :
        /\ pr.def.type = "array"
        /\ pr.name \notin entitySchema.mapping
        /\ isCustomType(pr.def.items.type)
        /\ HasCtor(pr.def.items)}

\* the whitelisted subfields of the items of an array field
Subfields(pr) ==
    {sub \in Properties(pr.def.items.entitySchema) : IsScalar(sub.def) /\ \E e \in Entries : IsPrefix(<<pr.name, sub.name>>, e)}

ItemKey(pr, i, sub) == Key(<<Name(pr.name), Counter(i), Name(sub.name)>>)

HasValue(pr, i) == \E sub \in Subfields(pr) : Present(ItemKey(pr, i, sub))

\* k, where k + 1 is the smallest index no whitelisted subfield has a value at
Gap(pr) == CHOOSE k \in 0..Cardinality(DOMAIN self.dict) : (\A i \in 1..k : HasValue(pr, i)) /\ ~HasValue(pr, k + 1)

Item(pr, i) ==
    LET subs == {sub \in Subfields(pr) : Present(ItemKey(pr, i, sub))}
    IN  Obj([name \in {sub.name : sub \in subs} |->
                LET sub == CHOOSE x \in subs : x.name = name
                IN  Stored(self.dict[ItemKey(pr, i, sub)], Name(name), sub.def, pr.def.items.entitySchema)])

ElementsOf(v) == IF v.k = "array" THEN v.e ELSE <<>>

\* C3: indexed enumeration of an array of nested objects stops at the first
\* gap.  A pass that completes appends to the field exactly the items of the
\* indices 1..k in ascending order, item i built from the keys
\* <field>_<i>_<subfield> of the whitelisted subfields, where k + 1 is the
\* smallest index at which none of them has a value; the field stays as it
\* was when k = 0; and no key of an index above k + 1 is looked up.
StopsAtFirstGap ==
    \A p \in Passes : \A pr \in ObjectArrays :
        Completed(p) =>
            LET k == Gap(pr)
            IN  /\ IF k = 0 THEN GetProp(p.after, pr.name) = GetProp(p.before, pr.name)
                   ELSE GetProp(p.after, pr.name) = Arr(ElementsOf(GetProp(p.before, pr.name)) \o [i \in 1..k |-> Item(pr, i)])
                /\ \A g \in Events(p, "get") :
                      (Len(g.path) > 1 /\ g.path[1] = Name(pr.name)) => g.path[2].n <= k + 1

\* keys for the indices 1, 2 and 4 but not 3: a pass into a new entity
\* completed and produced the items 1 and 2
StopsAtFirstGapWitness ==
    \E p \in Passes : \E pr \in ObjectArrays :
        /\ Completed(p)
        /\ HasValue(pr, 1) /\ HasValue(pr, 2) /\ ~HasValue(pr, 3) /\ HasValue(pr, 4)
        /\ pr.name \notin DOMAIN p.before.f
        /\ Len(GetProp(p.after, pr.name).e) = 2

RECURSIVE NoEmptyNested(_)
\* no object or Array below v holds an object without fields
NoEmptyNested(v) ==
    CASE v.k = "object" -> \A n \in DOMAIN v.f : v.f[n] # EmptyObj /\ NoEmptyNested(v.f[n])
      [] v.k = "array" -> \A i \in DOMAIN v.e : v.e[i] # EmptyObj /\ NoEmptyNested(v.e[i])
      [] OTHER -> TRUE

\* the nested-object fields of the schema
ObjectFields == {pr \in Properties(entitySchema) : isCustomType(pr.def.type)}

\* the scalars a pass wrote below a nested-object field, at any depth
WrittenBelow(p, pr) == {w \in Events(p, "write") : Len(w.path) > 1 /\ w.path[1] = Name(pr.name)}

\* C6: a nested object is attached iff its schema has a ctor and a
\* descendant field was written.  After a pass that completes, a
\* nested-object field holds a new object whose fields are those written
\* below it (or holding one) when its schema declares a ctor and one was
\* written, and what it held before otherwise; without a ctor the field (or the array of such items)
\* is as it was after any pass; and no pass leaves an object without fields
\* anywhere below the target.
AttachedIffCtorAndChanged ==
    \A p \in Passes :
        /\ NoEmptyNested(p.after)
        /\ \A pr \in ObjectFields :
              /\ ~HasCtor(pr.def) => GetProp(p.after, pr.name) = GetProp(p.before, pr.name)
              /\ Completed(p) =>
                    IF HasCtor(pr.def) /\ WrittenBelow(p, pr) # {}
                    THEN /\ GetProp(p.after, pr.name).k = "object"
                         /\ DOMAIN GetProp(p.after, pr.name).f = {w.path[2].s : w \in WrittenBelow(p, pr)}
                         /\ \A w \in WrittenBelow(p, pr) : Len(w.path) = 2 => GetProp(p.after, pr.name).f[w.path[2].s] = w.val
                    ELSE GetProp(p.after, pr.name) = GetProp(p.before, pr.name)
        /\ \A pr \in Properties(entitySchema) :
              (pr.def.type = "array" /\ isCustomType(pr.def.items.type) /\ ~HasCtor(pr.def.items))
                  => GetProp(p.after, pr.name) = GetProp(p.before, pr.name)

\* a pass attached a nested object with a ctor and a written descendant to
\* an entity that did not hold the field
AttachedIffCtorAndChangedWitness ==
    \E p \in Passes : \E pr \in ObjectFields :
        /\ Completed(p)
        /\ HasCtor(pr.def)
        /\ WrittenBelow(p, pr) # {}
        /\ pr.name \notin DOMAIN p.before.f
        /\ pr.name \in DOMAIN p.after.f

\* ScalarConverter: the conversion of the field's declared type applied to
\* the raw value as the value source returned it
Converted(raw, fieldName, def, es) == parseSimpleType(raw, fieldName, def, es).val

\* the scalar fields of the schema that start a whitelist entry
WhitelistedScalars == {pr \in Properties(entitySchema) : IsScalar(pr.def) /\ \E e \in Entries : IsPrefix(<<pr.name>>, e)}

\* C2: with overwrite=false a pass never replaces a scalar that was set
\* before it, whatever its value (0, false and "" included)
NeverReplacesSetScalar ==
    \A p \in Passes :
        NoOverwrite(p) =>
            \A pr \in Properties(entitySchema) :
                (IsScalar(pr.def) /\ pr.name \in DOMAIN p.before.f)
                    => GetProp(p.after, pr.name) = GetProp(p.before, pr.name)

\* the CSV-mode array fields of the schema whose name is in the whitelist
\* and whose key holds a string
CsvArrays ==
    {pr \in Properties(entitySchema) :
        /\ pr.def.type = "array"
        /\ pr.name \in entitySchema.mapping
        /\ IsScalar(pr.def.items)
        /\ <<pr.name>> \in Entries
        /\ Present(Key(<<Name(pr.name)>>))
        /\ self.dict[Key(<<Name(pr.name)>>)].k = "string"}

CsvItems(pr) ==
    LET items == Split(self.dict[Key(<<Name(pr.name)>>)].s, ",")
    IN  [i \in DOMAIN items |-> Converted(Str(items[i]), Name(pr.name), pr.def.items, pr.def)]

\* C4: a pass leaves a whitelisted CSV-mode array field holding the items of
\* the comma-separated string of its key, in order, each converted with the
\* item type, and reports a change
CsvArrayIsSplit ==
    \A p \in Passes : \A pr \in CsvArrays :
        (self.failing = {} /\ pr.name \notin DOMAIN p.before.f) =>
            /\ Completed(p)
            /\ p.ret
            /\ GetProp(p.after, pr.name) = Arr(CsvItems(pr))

\* the indexed-mode array fields of primitives that are whitelisted
PrimitiveArrays ==
    {pr \in Properties(entitySchema) :
        /\ pr.def.type = "array"
        /\ pr.name \notin entitySchema.mapping
        /\ IsScalar(pr.def.items)
        /\ \E e \in Entries : IsPrefix(<<pr.name>>, e)}

\* n, where <field>_1 .. <field>_n are the keys present
Run(pr) ==
    CHOOSE n \in 0..Cardinality(DOMAIN self.dict) :
        /\ \A i \in 1..n : Present(Key(<<Name(pr.name), Counter(i)>>))
        /\ ~Present(Key(<<Name(pr.name), Counter(n + 1)>>))

\* C5: a pass that completes appends the converted values of the keys
\* <field>_1 .. <field>_n of a whitelisted indexed array of primitives, in
\* ascending order, and assigns the sequence to the field
PrimitiveArrayIsEnumerated ==
    \A p \in Passes : \A pr \in PrimitiveArrays :
        (Completed(p) /\ Run(pr) > 0) =>
            GetProp(p.after, pr.name)
                = Arr(ElementsOf(GetProp(p.before, pr.name))
                      \o [i \in 1..Run(pr) |-> Converted(self.dict[Key(<<Name(pr.name), Counter(i)>>)], Counter(i), pr.def.items, pr.def)])

\* C7: map is idempotent with overwrite=true: a second completed pass with
\* the same schema, whitelist and value source leaves the target as the
\* first completed pass left it
Idempotent ==
    \A i \in DOMAIN hist :
        (i > 1 /\ Overwrite(hist[i]) /\ Overwrite(hist[i - 1]) /\ Completed(hist[i]) /\ Completed(hist[i - 1]))
            => hist[i].after = hist[i - 1].after

\* C8: a pass that completes with overwrite=true leaves in every whitelisted
\* scalar field whose key has a value the ScalarConverter result of the raw
\* value
WritesConvertedRaw ==
    \A p \in Passes : \A pr \in WhitelistedScalars :
        (Completed(p) /\ Overwrite(p) /\ Present(Key(<<Name(pr.name)>>)))
            => GetProp(p.after, pr.name) = Converted(self.dict[Key(<<Name(pr.name)>>)], Name(pr.name), pr.def, entitySchema)

\* the array fields of the schema whose item type is "array"
NestedArrays == {pr \in Properties(entitySchema) : pr.def.type = "array" /\ pr.def.items.type = "array"}

\* C9: a pass that reaches an array field whose item type is "array" aborts
\* with the array-of-arrays error, in either encoding
NestedArrayIsRejected ==
    \A p \in Passes :
        (NestedArrays # {} /\ (p.entry = "map_impl" \/ whitelist = <<>>)) => p.thrown = ArrayOfArrays

\* C10: after any pass, completed or aborted, the parents array is as it was
\* on entry (empty)
ParentsRestored == \A p \in Passes : p.parents = <<>>

====
